---- MODULE Spec2Model ----
(***************************************************************************)
(* Batched tridiagonal (Thomas) solvers of kokkos/mitgcm_demo and          *)
(* kokkos/mitgcm_demo_optimized.reference, with the benchmark harness      *)
(* (main) that drives them.                                                *)
(*                                                                         *)
(* double values are modelled as exact rationals <<num, den>> in lowest    *)
(* terms (den > 0); <<1, 0>> stands for a non-finite double (inf / NaN).   *)
(* Rounding is not modelled: two runs of the same operation sequence give  *)
(* the same value, as they do in IEEE arithmetic.                          *)
(*                                                                         *)
(* A Kokkos parallel_for is a dispatch of units of work.  The units of one *)
(* dispatch run in any order; dispatches on the default execution space    *)
(* run in the order they were issued.  In a TeamPolicy dispatch every      *)
(* member of a team executes the team lambda; the team size is chosen by   *)
(* the runtime (Kokkos::AUTO).                                             *)
(***************************************************************************)
EXTENDS Integers, Sequences, FiniteSets, TLC

\* ------------------------------------------------------------------ bounds
MaxNi   == 2      \* systems per batch: ni in 1..MaxNi
MaxNk   == 2      \* levels per system: nk in 1..MaxNk
MaxTeam == 2      \* team size Kokkos::AUTO may pick: 1..MaxTeam
MaxReps == 1      \* harness argument reps in 0..MaxReps
NrModel == 1      \* harness level count (Nr, 50 in the source), scaled down

\* ------------------------------------------------------- program constants
WarmupIters == 3  \* for (int warmup = 0; warmup < 3; warmup++)

\* ------------------------------------------------------ double arithmetic
Abs(x) == IF x < 0 THEN -x ELSE x

\* Euclid's algorithm, as a function so that its arguments are values
Euclid[x \in Nat, y \in Nat] == IF y = 0 THEN x ELSE Euclid[y, x % y]
GCD(x, y) == Euclid[x, y]

NonFinite == <<1, 0>>

Norm(n, d) ==
  IF d = 0 THEN NonFinite
  ELSE LET s == IF d < 0 THEN -1 ELSE 1
           g == GCD(Abs(n), Abs(d))
       IN  <<(s * n) \div g, (s * d) \div g>>

R(n)   == <<n, 1>>
Zero   == R(0)
One    == R(1)

IsFinite(x) == x[2] # 0

\* operands are cancelled before they are multiplied, so that intermediate
\* products stay as small as the result
RAdd(x, y) == IF IsFinite(x) /\ IsFinite(y)
              THEN LET g == GCD(x[2], y[2])
                   IN  Norm(x[1] * (y[2] \div g) + y[1] * (x[2] \div g),
                            (x[2] \div g) * y[2])
              ELSE NonFinite
RNeg(x)    == IF IsFinite(x) THEN <<-x[1], x[2]>> ELSE NonFinite
RSub(x, y) == RAdd(x, RNeg(y))
RMul(x, y) == IF IsFinite(x) /\ IsFinite(y)
              THEN IF x[1] = 0 \/ y[1] = 0 THEN <<0, 1>>
                   ELSE LET g1 == GCD(Abs(x[1]), y[2])
                            g2 == GCD(Abs(y[1]), x[2])
                        IN  Norm((x[1] \div g1) * (y[1] \div g2),
                                 (x[2] \div g2) * (y[2] \div g1))
              ELSE NonFinite
\* 1.0 / x; 1.0 / 0.0 is non-finite
RInv(x)    == IF IsFinite(x) THEN Norm(x[2], x[1]) ELSE NonFinite

\* ------------------------------------------------------------------ state
VARIABLES
  ni, nk,          \* batch shape passed to the solvers (n, Nr in main)
  a, b, c, y,      \* the generated system: [0..ni-1 -> [0..nk-1 -> double]]
  team_size,       \* members per team picked by the runtime for Kokkos::AUTO
  shmem_L1,        \* what a get_shmem on level-1 team scratch returns in this build
  changed,         \* history: systems whose b was altered between two calls
  impl, reps,      \* argv[3], argv[2]
  pc,              \* position of main
  warmup, rep,     \* loop counters of main
  initdone,        \* (i,k) units of init_matrices that have run
  y_naive, y_optimized,   \* working copies handed to the solvers
  c_prime, y_prime,       \* scratch views of the naive solver
  launched,        \* naive solver: number of parallel_for dispatched so far
  done,            \* naive solver: done[p] = units of dispatch p that finished
  scratch,         \* fused solver: scratch[i] = team i's 2*nk scratch doubles
  dispatched,      \* fused solver: the team dispatch has been issued
  mpc,             \* fused solver: mpc[i][m] = statements member m of team i ran
  wlog,            \* history: <<unit, location>> written in the current solve
  ywrites,         \* history: ywrites[i][k] = writes to y(i,k) in current solve
  divzero,         \* history: some 1.0/x was evaluated with x = 0
  naive_calls, opt_calls, \* history: solver invocations made by main
  first_naive, first_opt  \* history: result of the first completed solve

vars == <<ni, nk, shmem_L1, a, b, c, y, team_size, changed, impl, reps, pc, warmup, rep, initdone,
          y_naive, y_optimized, c_prime, y_prime, launched, done,
          scratch, dispatched, mpc,
          wlog, ywrites, divzero, naive_calls, opt_calls, first_naive, first_opt>>

Rows   == 0 .. ni - 1
Levels == 0 .. nk - 1

\* (faulty variant) a solve that never issues backward_sweep_last
NaiveDispatches_NoLast ==
  << <<"forward_sweep_first", 0>> >>
    \o [j \in 1 .. nk - 1 |-> <<"forward_sweep", j>>]
    \o [j \in 1 .. nk - 1 |-> <<"backward_sweep", nk - 1 - j>>]

\* the parallel_for calls of one naive solve, <<label, k>>, in the order the
\* function body issues them: forward_sweep_first; for (k = 1; k < nk; k++)
\* forward_sweep; backward_sweep_last; for (k = nk-2; k >= 0; k--)
\* backward_sweep
NaiveDispatches ==
  << <<"forward_sweep_first", 0>> >>
    \o [j \in 1 .. nk - 1 |-> <<"forward_sweep", j>>]
    \o << <<"backward_sweep_last", nk - 1>> >>
    \o [j \in 1 .. nk - 1 |-> <<"backward_sweep", nk - 1 - j>>]

Passes == 0 .. Len(NaiveDispatches) - 1

\* View<double**>("label", n0, n1): Kokkos zero-initialises a labelled view
NewView(n0, n1) == [i \in 0 .. n0 - 1 |-> [k \in 0 .. n1 - 1 |-> Zero]]

\* one store / one division / one load of y or of a scratch buffer, as a unit
\* of work reports it
W(arr, i, k, v) == [arr |-> arr, i |-> i, k |-> k, v |-> v]
Div(i, k, x)    == W("div", i, k, x)
LoadTag == [y |-> "rd:y", c_prime |-> "rd:c_prime",
            y_prime |-> "rd:y_prime", scratch |-> "rd:scratch"]
Rd(arr, i, k)   == W(LoadTag[arr], i, k, Zero)

\* the view after the stores of ws that address it
Store(view, name, ws) ==
  IF \A w \in ws : w.arr # name THEN view
  ELSE [i \in DOMAIN view |-> [k \in DOMAIN view[i] |->
          IF \E w \in ws : w.arr = name /\ w.i = i /\ w.k = k
          THEN (CHOOSE w \in ws : w.arr = name /\ w.i = i /\ w.k = k).v
          ELSE view[i][k]]]

LoadTags        == {LoadTag[n] : n \in DOMAIN LoadTag}
Stores(ws)      == {w \in ws : w.arr # "div" /\ w.arr \notin LoadTags}
Loads(ws)       ==
  {<<p[1], p[2].i, p[2].k>> :
     p \in {q \in (DOMAIN LoadTag) \X ws : q[2].arr = LoadTag[q[1]]}}
Logged(unit, ws) == {<<unit, <<w.arr, w.i, w.k>>>> : w \in Stores(ws)}
Counted(cnt, ws) ==
  [i \in DOMAIN cnt |-> [k \in DOMAIN cnt[i] |->
     cnt[i][k] + Cardinality({w \in ws : w.arr = "y" /\ w.i = i /\ w.k = k})]]
DividesByZero(ws) == \E w \in ws : w.arr = "div" /\ w.v = Zero

\* ------------------------------------------------- naive row-parallel solver
\* lambda of "forward_sweep_first"
forward_sweep_first(i) ==
  IF b[i][0] # Zero
  THEN LET recVar == RInv(b[i][0])
       IN  { Div(i, 0, b[i][0]), Rd("y", i, 0),
             W("c_prime", i, 0, RMul(c[i][0], recVar)),
             W("y_prime", i, 0, RMul(y_naive[i][0], recVar)) }
  ELSE { W("c_prime", i, 0, Zero), W("y_prime", i, 0, Zero) }

\* lambda of "forward_sweep", level k >= 1
forward_sweep(i, k) ==
  LET tmpVar == RSub(b[i][k], RMul(a[i][k], c_prime[i][k - 1]))
  IN  IF tmpVar # Zero
      THEN LET recVar == RInv(tmpVar)
           IN  { Div(i, k, tmpVar), Rd("c_prime", i, k - 1),
                 Rd("y", i, k), Rd("y_prime", i, k - 1),
                 W("c_prime", i, k, RMul(c[i][k], recVar)),
                 W("y_prime", i, k,
                   RMul(RSub(y_naive[i][k], RMul(a[i][k], y_prime[i][k - 1])),
                        recVar)) }
      ELSE { Rd("c_prime", i, k - 1),
             W("c_prime", i, k, Zero), W("y_prime", i, k, Zero) }

\* (faulty variant) the last-level lambda storing into the diagonal
backward_sweep_last_into_b(i) == { W("b", i, nk - 1, y_prime[i][nk - 1]) }

\* lambda of "backward_sweep_last"
backward_sweep_last(i) ==
  { Rd("y_prime", i, nk - 1), W("y", i, nk - 1, y_prime[i][nk - 1]) }

\* (faulty variant) the backward lambda storing one level too high
backward_sweep_shifted(i, k) ==
  { W("y", i, k + 1,
      RSub(y_prime[i][k], RMul(c_prime[i][k], y_naive[i][k + 1]))) }

\* lambda of "backward_sweep", level k <= nk-2
backward_sweep(i, k) ==
  { Rd("y_prime", i, k), Rd("c_prime", i, k), Rd("y", i, k + 1),
    W("y", i, k, RSub(y_prime[i][k], RMul(c_prime[i][k], y_naive[i][k + 1]))) }

\* the dispatches of one naive solve, in issue order: p = 0 .. 2*nk-1
PassLevel(p) == IF p < nk THEN p ELSE 2 * nk - 1 - p
NaiveLambda(p, i) ==
  LET d == NaiveDispatches[p + 1]
  IN  CASE d[1] = "forward_sweep_first" -> forward_sweep_first(i)
        [] d[1] = "forward_sweep"       -> forward_sweep(i, d[2])
        [] d[1] = "backward_sweep_last" -> backward_sweep_last(i)
        [] d[1] = "backward_sweep"      -> backward_sweep(i, d[2])

InNaive == pc \in {"w_naive", "n_solve", "s_solve"}
InOpt   == pc \in {"w_opt", "o_solve"}

PassComplete(p) == done[p] = Rows

\* (faulty variant) a dispatch that does not wait for the earlier ones
PassMayStartAsync(p) == TRUE

\* dispatches on one execution space run in issue order: a dispatch starts
\* executing when every earlier one has completed
PassMayStart(p) == \A q \in 0 .. p - 1 : PassComplete(q)

\* entry of solve_tridiagonal_kokkos_naive: the scratch views are created
EnterNaive ==
  /\ c_prime' = NewView(ni, nk)
  /\ y_prime' = NewView(ni, nk)
  /\ launched' = 0
  /\ done' = [p \in Passes |-> {}]
  /\ wlog' = {}
  /\ ywrites' = [i \in Rows |-> [k \in Levels |-> 0]]
  /\ naive_calls' = naive_calls + 1

\* the next parallel_for of the naive solver begins executing
NaiveDispatch ==
  /\ InNaive
  /\ launched < Len(NaiveDispatches)
  /\ PassMayStart(launched)
  /\ launched' = launched + 1
  /\ UNCHANGED <<ni, nk, shmem_L1, a, b, c, y, team_size, changed, impl, reps, pc, warmup, rep,
                 initdone, y_naive, y_optimized, c_prime, y_prime, done,
                 scratch, dispatched, mpc, wlog, ywrites, divzero,
                 naive_calls, opt_calls, first_naive, first_opt>>

\* unit i of dispatch p runs its lambda; a, b and c are views of non-const
\* double here, so the lambda's stores to them, if any, take effect
NaiveUnit(p, i) ==
  /\ InNaive
  /\ p < launched
  /\ i \notin done[p]
  /\ LET ws == NaiveLambda(p, i)
     IN  /\ a' = Store(a, "a", ws)
         /\ b' = Store(b, "b", ws)
         /\ c' = Store(c, "c", ws)
         /\ c_prime' = Store(c_prime, "c_prime", ws)
         /\ y_prime' = Store(y_prime, "y_prime", ws)
         /\ y_naive' = Store(y_naive, "y", ws)
         /\ wlog' = wlog \cup Logged(<<p, i>>, ws)
         /\ ywrites' = Counted(ywrites, ws)
         /\ divzero' = (divzero \/ DividesByZero(ws))
  /\ done' = [done EXCEPT ![p] = @ \cup {i}]
  /\ UNCHANGED <<ni, nk, shmem_L1, y, team_size, changed, impl, reps, pc, warmup, rep,
                 initdone, y_optimized, launched, scratch, dispatched, mpc,
                 naive_calls, opt_calls, first_naive, first_opt>>

NaiveFinished ==
  launched = Len(NaiveDispatches) /\ \A p \in Passes : PassComplete(p)

NoView == << >>

\* return of the naive solver; its scratch views go out of scope
NaiveReturn ==
  /\ InNaive
  /\ NaiveFinished
  /\ pc' = CASE pc = "w_naive" -> "w_mid"
             [] pc = "n_solve" -> "n_head"
             [] pc = "s_solve" -> "s_head"
  /\ rep' = IF pc = "w_naive" THEN rep ELSE rep + 1
  /\ first_naive' = IF first_naive = NoView THEN y_naive ELSE first_naive
  /\ c_prime' = NoView
  /\ y_prime' = NoView
  /\ UNCHANGED <<ni, nk, shmem_L1, a, b, c, y, team_size, changed, impl, reps, warmup, initdone,
                 y_naive, y_optimized, launched, done, scratch, dispatched,
                 mpc, wlog, ywrites, divzero, naive_calls, opt_calls,
                 first_opt>>

\* ---------------------------------------------------- fused team-local solver
\* policy.set_scratch_size(0, PerTeam(2 * nk * sizeof(double))), in doubles
ScratchSize == 2 * nk
SizeofDouble == 8
\* get_shmem(size, level = -1) of the handle team_scratch(0) returns: the
\* scratch level a request is served from (-1: the handle's level, 0: level
\* 0, anything else: level 1)
ShmemLevel(level) == IF level = -1 \/ level = 0 THEN 0 ELSE 1
\* level-1 team scratch, of which the policy requests none: a host back end
\* hands out the team's one shared buffer from its start for either level, a
\* device back end has no level-1 buffer and get_shmem returns nullptr
Level1Scratch == {"team_shared", "nullptr"}
\* c_prime = get_shmem(nk * sizeof(double)): the first nk doubles of the
\* level-0 scratch
c_prime_at(k) == k
\* y_prime = get_shmem(nk * sizeof(double), nk * sizeof(double)): the second
\* argument is the level
y_prime_level == ShmemLevel(nk * SizeofDouble)
y_prime_null  == y_prime_level = 1 /\ shmem_L1 = "nullptr"
y_prime_at(k) == IF y_prime_level = 0 THEN nk + k ELSE k
\* the stores w1; w2 of one statement, in program order
InOrder(w1, w2) ==
  IF w1.arr = w2.arr /\ w1.i = w2.i /\ w1.k = w2.k THEN {w2} ELSE {w1, w2}

\* what a team's scratch may hold before the team writes it
Garbage == {Zero, R(5)}

Members == 1 .. team_size

\* statement s = 0 .. 2*nk-1 of the team lambda, run by a member of team i:
\* forward levels 0 .. nk-1, then backward levels nk-1 .. 0
TeamLambda(s, i) ==
  LET k  == PassLevel(s)
      sc == scratch[i]
  IN  IF s = 0 THEN
        IF b[i][0] # Zero
        THEN LET recVar == RInv(b[i][0])
             IN  { Div(i, 0, b[i][0]), Rd("y", i, 0) }
                   \cup InOrder(
                     W("scratch", i, c_prime_at(0), RMul(c[i][0], recVar)),
                     W("scratch", i, y_prime_at(0),
                       RMul(y_optimized[i][0], recVar)))
        ELSE InOrder(W("scratch", i, c_prime_at(0), Zero),
                     W("scratch", i, y_prime_at(0), Zero))
      ELSE IF s < nk THEN
        LET tmpVar == RSub(b[i][k], RMul(a[i][k], sc[c_prime_at(k - 1)]))
        IN  IF tmpVar # Zero
            THEN LET recVar == RInv(tmpVar)
                 IN  { Div(i, k, tmpVar), Rd("scratch", i, c_prime_at(k - 1)),
                       Rd("y", i, k), Rd("scratch", i, y_prime_at(k - 1)) }
                       \cup InOrder(
                         W("scratch", i, c_prime_at(k), RMul(c[i][k], recVar)),
                         W("scratch", i, y_prime_at(k),
                           RMul(RSub(y_optimized[i][k],
                                     RMul(a[i][k], sc[y_prime_at(k - 1)])),
                                recVar)))
            ELSE { Rd("scratch", i, c_prime_at(k - 1)) }
                   \cup InOrder(W("scratch", i, c_prime_at(k), Zero),
                                W("scratch", i, y_prime_at(k), Zero))
      ELSE IF s = nk THEN
        { Rd("scratch", i, y_prime_at(nk - 1)),
          W("y", i, nk - 1, sc[y_prime_at(nk - 1)]) }
      ELSE
        { Rd("scratch", i, y_prime_at(k)), Rd("scratch", i, c_prime_at(k)),
          Rd("y", i, k + 1),
          W("y", i, k, RSub(sc[y_prime_at(k)],
                            RMul(sc[c_prime_at(k)], y_optimized[i][k + 1]))) }

\* entry of solve_tridiagonal_kokkos_optimized
EnterOpt ==
  /\ dispatched' = 0
  /\ scratch' = NoView
  /\ mpc' = NoView
  /\ wlog' = {}
  /\ ywrites' = [i \in Rows |-> [k \in Levels |-> 0]]
  /\ opt_calls' = opt_calls + 1

\* parallel_for("thomas_algorithm_single_kernel", policy, ...): ni teams of
\* team_size members, each team with ScratchSize uninitialised doubles
FusedDispatch ==
  /\ InOpt
  /\ dispatched = 0
  /\ dispatched' = 1
  /\ \E g \in Garbage :
       scratch' = [i \in Rows |-> [o \in 0 .. ScratchSize - 1 |-> g]]
  /\ mpc' = [i \in Rows |-> [m \in Members |-> 0]]
  /\ UNCHANGED <<ni, nk, shmem_L1, a, b, c, y, team_size, changed, impl, reps, pc, warmup, rep,
                 initdone, y_naive, y_optimized, c_prime, y_prime, launched,
                 done, wlog, ywrites, divzero, naive_calls, opt_calls,
                 first_naive, first_opt>>

\* member m of team i runs its next statement (a, b and c are views of const
\* double in this solver: the lambda cannot store to them).  The members of a team are
\* interchangeable (the lambda never reads team_rank and keeps nothing across
\* statements), so of the members standing at the same statement the one of
\* lowest rank moves.
MemberStep(i, m) ==
  /\ InOpt
  /\ dispatched = 1
  /\ mpc[i][m] < 2 * nk
  /\ ~y_prime_null
  /\ \A m2 \in Members : m2 < m => mpc[i][m2] # mpc[i][m]
  /\ LET ws == TeamLambda(mpc[i][m], i)
     IN  /\ scratch' = Store(scratch, "scratch", ws)
         /\ y_optimized' = Store(y_optimized, "y", ws)
         /\ wlog' = wlog \cup Logged(<<i, m>>, ws)
         /\ ywrites' = Counted(ywrites, ws)
         /\ divzero' = (divzero \/ DividesByZero(ws))
  /\ mpc' = [mpc EXCEPT ![i][m] = @ + 1]
  /\ UNCHANGED <<ni, nk, shmem_L1, a, b, c, y, team_size, changed, impl, reps, pc, warmup, rep,
                 initdone, y_naive, c_prime, y_prime, launched, done,
                 dispatched, naive_calls, opt_calls, first_naive, first_opt>>

\* member m of team i runs a statement while y_prime is the null pointer:
\* every statement of the lambda accesses y_prime[k], the access faults and
\* the run is aborted
MemberFault(i, m) ==
  /\ InOpt
  /\ dispatched = 1
  /\ mpc[i][m] < 2 * nk
  /\ y_prime_null
  /\ pc' = "abort"
  /\ UNCHANGED <<ni, nk, shmem_L1, a, b, c, y, team_size, changed, impl, reps,
                 warmup, rep, initdone, y_naive, y_optimized, c_prime, y_prime,
                 launched, done, scratch, dispatched, mpc, wlog, ywrites,
                 divzero, naive_calls, opt_calls, first_naive, first_opt>>

FusedFinished ==
  dispatched = 1 /\ \A i \in Rows : \A m \in Members : mpc[i][m] = 2 * nk

\* return of the fused solver (the dispatch has completed; the team scratch
\* is released)
OptReturn ==
  /\ InOpt
  /\ FusedFinished
  /\ pc' = CASE pc = "w_opt" -> "w_head"
             [] pc = "o_solve" -> "o_head"
  /\ warmup' = IF pc = "w_opt" THEN warmup + 1 ELSE warmup
  /\ rep' = IF pc = "o_solve" THEN rep + 1 ELSE rep
  /\ first_opt' = IF first_opt = NoView THEN y_optimized ELSE first_opt
  /\ scratch' = NoView
  /\ mpc' = NoView
  /\ UNCHANGED <<ni, nk, shmem_L1, a, b, c, y, team_size, changed, impl, reps, initdone,
                 y_naive, y_optimized, c_prime, y_prime, launched, done,
                 dispatched, wlog, ywrites, divzero, naive_calls, opt_calls,
                 first_naive>>

\* ------------------------------------------------------------------- main
\* std::sin(pi * p / q) and std::cos(pi * p / q) where they are rational:
\* q <= 2 for the sine, q <= 3 for the cosine (1 <= p <= q)
SinPi(p, q) ==
  CASE p = q                -> Zero
    [] 2 * p = q            -> One
CosPi(p, q) ==
  CASE p = q                -> R(-1)
    [] 2 * p = q            -> Zero
    [] q = 3 /\ p = 1       -> <<1, 2>>
    [] q = 3 /\ p = 2       -> <<-1, 2>>

\* (faulty variant) a lower diagonal coupled at the first level too
GenA_AllCoupled(i, k) == <<-1, 2>>

\* the values init_matrices stores at (i, k)
GenA(i, k) == IF k > 0 THEN <<-1, 2>> ELSE Zero
GenB(i, k) == RAdd(R(2), RMul(<<1, 10>>, SinPi(i + 1, ni)))
GenC(i, k) == IF k < nk - 1 THEN <<-1, 2>> ELSE Zero
GenY(i, k) == RMul(SinPi(i + 1, ni), CosPi(k + 1, nk))

\* unit (i, k) of parallel_for("init_matrices", MDRangePolicy ...)
InitUnit(i, k) ==
  /\ pc = "init"
  /\ <<i, k>> \notin initdone
  /\ a' = [a EXCEPT ![i][k] = GenA(i, k)]
  /\ b' = [b EXCEPT ![i][k] = GenB(i, k)]
  /\ c' = [c EXCEPT ![i][k] = GenC(i, k)]
  /\ y' = [y EXCEPT ![i][k] = GenY(i, k)]
  /\ initdone' = initdone \cup {<<i, k>>}
  /\ UNCHANGED <<ni, nk, shmem_L1, team_size, changed, impl, reps, pc, warmup, rep,
                 y_naive, y_optimized, c_prime, y_prime, launched, done,
                 scratch, dispatched, mpc, wlog, ywrites, divzero,
                 naive_calls, opt_calls, first_naive, first_opt>>

\* fence() after the initialisation; the warm-up loop starts
InitFence ==
  /\ pc = "init"
  /\ initdone = Rows \X Levels
  /\ pc' = "w_head"
  /\ warmup' = 0
  /\ UNCHANGED <<ni, nk, shmem_L1, a, b, c, y, team_size, changed, impl, reps, rep, initdone,
                 y_naive, y_optimized, c_prime, y_prime, launched, done,
                 scratch, dispatched, mpc, wlog, ywrites, divzero,
                 naive_calls, opt_calls, first_naive, first_opt>>

RunsNaive == impl \in {"naive", "both"}
RunsOpt   == impl \in {"optimized", "both"}

\* warm-up iteration, first half: deep_copy(y_naive, y); naive solve if chosen
WarmupNaive ==
  /\ pc = "w_head"
  /\ warmup < WarmupIters
  /\ y_naive' = y
  /\ IF RunsNaive
     THEN /\ pc' = "w_naive"
          /\ EnterNaive
     ELSE /\ pc' = "w_mid"
          /\ UNCHANGED <<c_prime, y_prime, launched, done, wlog, ywrites,
                         naive_calls>>
  /\ UNCHANGED <<ni, nk, shmem_L1, a, b, c, y, team_size, changed, impl, reps, warmup, rep,
                 initdone, y_optimized, scratch, dispatched, mpc, divzero,
                 opt_calls, first_naive, first_opt>>

\* warm-up iteration, second half: deep_copy(y_optimized, y) and the fused
\* solve if chosen; otherwise the iteration ends
WarmupOpt ==
  /\ pc = "w_mid"
  /\ IF RunsOpt
     THEN /\ pc' = "w_opt"
          /\ y_optimized' = y
          /\ EnterOpt
          /\ UNCHANGED warmup
     ELSE /\ pc' = "w_head"
          /\ warmup' = warmup + 1
          /\ UNCHANGED <<y_optimized, scratch, dispatched, mpc, wlog, ywrites,
                         opt_calls>>
  /\ UNCHANGED <<ni, nk, shmem_L1, a, b, c, y, team_size, changed, impl, reps, rep, initdone,
                 y_naive, c_prime, y_prime, launched, done, divzero,
                 naive_calls, first_naive, first_opt>>

\* the warm-up loop ends; fence(); the first benchmark loop starts
WarmupExit ==
  /\ pc = "w_head"
  /\ warmup = WarmupIters
  /\ pc' = IF RunsNaive THEN "n_head" ELSE "o_head"
  /\ rep' = 0
  /\ UNCHANGED <<ni, nk, shmem_L1, a, b, c, y, team_size, changed, impl, reps, warmup, initdone,
                 y_naive, y_optimized, c_prime, y_prime, launched, done,
                 scratch, dispatched, mpc, wlog, ywrites, divzero,
                 naive_calls, opt_calls, first_naive, first_opt>>

\* (faulty variant) a repetition that solves in the buffer as the previous
\* solve left it
TimedNaive_NoCopy ==
  /\ pc \in {"n_head", "s_head"}
  /\ rep < reps
  /\ pc' = IF pc = "n_head" THEN "n_solve" ELSE "s_solve"
  /\ EnterNaive
  /\ UNCHANGED <<ni, nk, shmem_L1, a, b, c, y, team_size, changed, impl, reps, warmup, rep,
                 initdone, y_naive, y_optimized, scratch, dispatched, mpc,
                 divzero, opt_calls, first_naive, first_opt>>

\* one repetition of a naive benchmark loop ("Benchmark naive implementation"
\* at n_head, "Calculate speedup" at s_head)
TimedNaive ==
  /\ pc \in {"n_head", "s_head"}
  /\ rep < reps
  /\ y_naive' = y
  /\ pc' = IF pc = "n_head" THEN "n_solve" ELSE "s_solve"
  /\ EnterNaive
  /\ UNCHANGED <<ni, nk, shmem_L1, a, b, c, y, team_size, changed, impl, reps, warmup, rep,
                 initdone, y_optimized, scratch, dispatched, mpc, divzero,
                 opt_calls, first_naive, first_opt>>

\* a naive benchmark loop ends
TimedNaiveExit ==
  /\ pc \in {"n_head", "s_head"}
  /\ rep = reps
  /\ pc' = IF pc = "n_head" /\ RunsOpt THEN "o_head" ELSE "out"
  /\ rep' = 0
  /\ UNCHANGED <<ni, nk, shmem_L1, a, b, c, y, team_size, changed, impl, reps, warmup, initdone,
                 y_naive, y_optimized, c_prime, y_prime, launched, done,
                 scratch, dispatched, mpc, wlog, ywrites, divzero,
                 naive_calls, opt_calls, first_naive, first_opt>>

\* one repetition of the fused benchmark loop
TimedOpt ==
  /\ pc = "o_head"
  /\ rep < reps
  /\ y_optimized' = y
  /\ pc' = "o_solve"
  /\ EnterOpt
  /\ UNCHANGED <<ni, nk, shmem_L1, a, b, c, y, team_size, changed, impl, reps, warmup, rep,
                 initdone, y_naive, c_prime, y_prime, launched, done, divzero,
                 naive_calls, first_naive, first_opt>>

\* (faulty variant) the fused benchmark loop ends and nothing is timed again
TimedOptExit_NoRetime ==
  /\ pc = "o_head"
  /\ rep = reps
  /\ pc' = "out"
  /\ rep' = 0
  /\ UNCHANGED <<ni, nk, shmem_L1, a, b, c, y, team_size, changed, impl, reps, warmup, initdone,
                 y_naive, y_optimized, c_prime, y_prime, launched, done,
                 scratch, dispatched, mpc, wlog, ywrites, divzero,
                 naive_calls, opt_calls, first_naive, first_opt>>

\* the fused benchmark loop ends; in "both" mode the naive loop is timed again
TimedOptExit ==
  /\ pc = "o_head"
  /\ rep = reps
  /\ pc' = IF impl = "both" THEN "s_head" ELSE "out"
  /\ rep' = 0
  /\ UNCHANGED <<ni, nk, shmem_L1, a, b, c, y, team_size, changed, impl, reps, warmup, initdone,
                 y_naive, y_optimized, c_prime, y_prime, launched, done,
                 scratch, dispatched, mpc, wlog, ywrites, divzero,
                 naive_calls, opt_calls, first_naive, first_opt>>

\* the view main prints
result_view == IF impl = "optimized" THEN y_optimized ELSE y_naive

\* ------------------------------------------------------------ specifications
\* argv[1]: the system counts for which the generator's sines are rational
HarnessN == {1, 2}
Impls == {"naive", "optimized", "both"}

InitCommon ==
  /\ rep = 0 /\ changed = {}
  /\ shmem_L1 \in Level1Scratch
  /\ c_prime = NoView /\ y_prime = NoView
  /\ launched = 0 /\ done = NoView
  /\ scratch = NoView /\ dispatched = 0 /\ mpc = NoView
  /\ wlog = {} /\ ywrites = NoView /\ divzero = FALSE
  /\ naive_calls = 0 /\ opt_calls = 0
  /\ first_naive = NoView /\ first_opt = NoView

\* main after argument parsing and view allocation
Init ==
  /\ ni \in HarnessN
  /\ nk = NrModel
  /\ reps \in 0 .. MaxReps
  /\ impl \in Impls
  /\ team_size \in 1 .. MaxTeam
  /\ a = NewView(ni, nk) /\ b = NewView(ni, nk)
  /\ c = NewView(ni, nk) /\ y = NewView(ni, nk)
  /\ y_naive = NewView(ni, nk) /\ y_optimized = NewView(ni, nk)
  /\ pc = "init"
  /\ initdone = {}
  /\ warmup = 0
  /\ InitCommon

Solver ==
  \/ NaiveDispatch
  \/ \E p \in Passes : \E i \in Rows : NaiveUnit(p, i)
  \/ NaiveReturn
  \/ FusedDispatch
  \/ \E i \in Rows : \E m \in Members : MemberStep(i, m)
  \/ \E i \in Rows : \E m \in Members : MemberFault(i, m)
  \/ OptReturn

Next ==
  \/ \E i \in Rows : \E k \in Levels : InitUnit(i, k)
  \/ InitFence
  \/ WarmupNaive
  \/ WarmupOpt
  \/ WarmupExit
  \/ TimedNaive
  \/ TimedNaiveExit
  \/ TimedOpt
  \/ TimedOptExit
  \/ Solver

Spec == Init /\ [][Next]_vars

\* main on a machine that keeps executing: as long as some step of the
\* program (a statement of main, a unit of work of a dispatch in execution)
\* can be taken, one eventually is
LiveSpec == Init /\ [][Next]_vars /\ WF_vars(Next)

\* main up to the fence that follows init_matrices, with the level count Nr
\* in 1 .. MaxNk
InitGen ==
  /\ ni \in HarnessN
  /\ nk \in 1 .. MaxNk
  /\ reps \in 0 .. MaxReps
  /\ impl \in Impls
  /\ team_size \in 1 .. MaxTeam
  /\ a = NewView(ni, nk) /\ b = NewView(ni, nk)
  /\ c = NewView(ni, nk) /\ y = NewView(ni, nk)
  /\ y_naive = NewView(ni, nk) /\ y_optimized = NewView(ni, nk)
  /\ pc = "init"
  /\ initdone = {}
  /\ warmup = 0
  /\ InitCommon
NextGen ==
  \/ \E i \in Rows : \E k \in Levels : InitUnit(i, k)
  \/ InitFence
SpecGen == InitGen /\ [][NextGen]_vars

\* A solver call on arbitrary arguments: main at the head of its last warm-up
\* iteration, with (ni, nk, a, b, c, y) drawn from bounded sets instead of
\* the generator.  b is free in every entry (so that zero pivots occur at
\* any level), the couplings a and c differ from each other, every entry of
\* y is distinct, and the two entries the recurrence ignores (a(i,0),
\* c(i,nk-1)) hold the generator's 0 in some rows and 1 in others.
BVals == {Zero, One, R(2)}
ArgA  == [i \in Rows |-> [k \in Levels |-> IF k = 0 THEN R(i % 2) ELSE One]]
ArgC  == [i \in Rows |-> [k \in Levels |->
            IF k = nk - 1 THEN R((i + 1) % 2) ELSE R(2)]]
ArgY  == [i \in Rows |-> [k \in Levels |-> R(nk * i + k + 1)]]

InitCall(impls, calls) ==
  /\ ni \in 1 .. MaxNi
  /\ nk \in 1 .. MaxNk
  /\ reps = 1
  /\ impl \in impls
  /\ team_size \in 1 .. MaxTeam
  /\ a = ArgA /\ c = ArgC
  /\ b \in [Rows -> [Levels -> BVals]]
  /\ y = ArgY
  /\ y_naive = NewView(ni, nk) /\ y_optimized = NewView(ni, nk)
  /\ pc = "w_head"
  /\ initdone = Rows \X Levels
  /\ warmup = WarmupIters - calls
  /\ InitCommon

\* one call of the naive solver; the diagonal takes the two values that
\* decide the branches of the forward lambdas (zero and non-zero pivot)
BNaive == {Zero, R(2)}
InitNaive ==
  /\ InitCall({"naive"}, 1)
  /\ team_size = 1
  /\ \A i \in Rows : \A k \in Levels : b[i][k] \in BNaive
NextNaive ==
  \/ WarmupNaive
  \/ NaiveDispatch
  \/ \E p \in Passes : \E i \in Rows : NaiveUnit(p, i)
  \/ NaiveReturn
  \/ WarmupOpt
SpecNaive == InitNaive /\ [][NextNaive]_vars

\* one call of the naive solver, then one of the fused solver, same arguments
InitSolve == InitCall({"both"}, 1)
NextSolve ==
  \/ WarmupNaive
  \/ WarmupOpt
  \/ Solver
SpecSolve == InitSolve /\ [][NextSolve]_vars

\* Two calls of each solver, between which the caller may set the diagonal
\* of one system to zero (the row-isolation scenario of the specification)
AlterSystem(i1) ==
  /\ pc = "w_head"
  /\ warmup = WarmupIters - 1
  /\ changed = {}
  /\ b' = [b EXCEPT ![i1] = [k \in Levels |-> Zero]]
  /\ changed' = {i1}
  /\ UNCHANGED <<ni, nk, shmem_L1, a, c, y, team_size, impl, reps, pc, warmup, rep,
                 initdone, y_naive, y_optimized, c_prime, y_prime, launched,
                 done, scratch, dispatched, mpc, wlog, ywrites, divzero,
                 naive_calls, opt_calls, first_naive, first_opt>>

InitIso ==
  /\ InitCall({"both"}, 2)
  /\ ni >= 2
  /\ \A i \in Rows : \A k \in Levels : b[i][k] \in BNaive
NextIso ==
  \/ WarmupNaive
  \/ WarmupOpt
  \/ Solver
  \/ \E i1 \in Rows : AlterSystem(i1)
SpecIso == InitIso /\ [][NextIso]_vars

\* ------------------------------------------------------------------ claims
FwdPass(k)  == k
BwdPass(k)  == 2 * nk - 1 - k
Started(p)  == p < launched
InFlight(p) == Started(p) /\ ~PassComplete(p)

\* C3: in a naive solve the forward pass of level k has started only if the
\* forward pass of level k-1 has completed for every system, the first
\* backward pass only if the last forward pass has completed, the backward
\* pass of level k only if that of level k+1 has completed; and two passes
\* are never in flight together.
C3_PassesOrdered ==
  InNaive =>
    /\ \A k \in 1 .. nk - 1 :
         Started(FwdPass(k)) => PassComplete(FwdPass(k - 1))
    /\ Started(BwdPass(nk - 1)) => PassComplete(FwdPass(nk - 1))
    /\ \A k \in 0 .. nk - 2 :
         Started(BwdPass(k)) => PassComplete(BwdPass(k + 1))
    /\ \A p \in Passes : \A q \in Passes :
         p # q => ~(InFlight(p) /\ InFlight(q))
    /\ \A p \in Passes : done[p] # {} => Started(p)

\* the last backward pass of a two-system, two-level solve, half done
C3_Witness ==
  /\ InNaive /\ ni >= 2 /\ nk >= 2
  /\ InFlight(BwdPass(0))
  /\ done[BwdPass(0)] # {}

\* C8: during a naive solve no result entry is written twice, and once the
\* solve is over every entry (i, k) has been written exactly once.
C8_WrittenOnce ==
  naive_calls > 0 =>
    /\ \A i \in Rows : \A k \in Levels : ywrites[i][k] <= 1
    /\ (~InNaive \/ NaiveFinished) =>
         \A i \in Rows : \A k \in Levels : ywrites[i][k] = 1

\* a finished naive solve of two systems of two levels
C8_Witness ==
  /\ InNaive /\ NaiveFinished /\ ni >= 2 /\ nk >= 2
  /\ \A i \in Rows : \A k \in Levels : ywrites[i][k] = 1

\* the pivot of system i at level k, from the scratch of the running solver
NaivePivot(i, k) ==
  IF k = 0 THEN b[i][0]
  ELSE RSub(b[i][k], RMul(a[i][k], c_prime[i][k - 1]))
FusedPivot(i, k) ==
  IF k = 0 THEN b[i][0]
  ELSE RSub(b[i][k], RMul(a[i][k], scratch[i][c_prime_at(k - 1)]))
\* some member of team i has run the forward statement of level k
FusedForwardRan(i, k) == \E m \in Members : mpc[i][m] > k

AllFinite(view) == \A i \in Rows : \A k \in Levels : IsFinite(view[i][k])

\* C5: in both solvers, once the forward step of system i at level k has run
\* and the pivot there is zero, c_prime[i][k] = 0 and y_prime[i][k] = 0; no
\* reciprocal of zero is ever taken; no solve ends in a fault; and a solve
\* that has run all its steps has written every entry of every system, all
\* finite.
C5_DegeneratePivot ==
  /\ ~divzero
  /\ pc # "abort"
  /\ InNaive =>
       /\ \A i \in Rows : \A k \in Levels :
            (i \in done[FwdPass(k)] /\ NaivePivot(i, k) = Zero) =>
               (c_prime[i][k] = Zero /\ y_prime[i][k] = Zero)
       /\ NaiveFinished =>
            /\ \A i \in Rows : \A k \in Levels : ywrites[i][k] >= 1
            /\ AllFinite(y_naive)
  /\ (InOpt /\ dispatched = 1) =>
       /\ \A i \in Rows : \A k \in Levels :
            (FusedForwardRan(i, k) /\ FusedPivot(i, k) = Zero) =>
               /\ scratch[i][c_prime_at(k)] = Zero
               /\ scratch[i][y_prime_at(k)] = Zero
       /\ FusedFinished =>
            /\ \A i \in Rows : \A k \in Levels : ywrites[i][k] >= 1
            /\ AllFinite(y_optimized)

\* both calls of the single-call specification have returned
BothReturned == pc = "w_head" /\ warmup = WarmupIters

\* C1: run on copies of the same y, the naive and the fused solver leave the
\* same value in every result entry.
C1_SameResult ==
  BothReturned =>
    \A i \in Rows : \A k \in Levels : y_naive[i][k] = y_optimized[i][k]

\* units u and v belong to one dispatch: naive units are <<pass, system>>,
\* members of the fused dispatch are <<team, member>>
SameDispatch(u, v) == IF InNaive THEN u[1] = v[1] ELSE TRUE
OwnerOf(u)         == IF InNaive THEN u[2] ELSE u[1]

\* C2: no two distinct units of one dispatch have written the same element of
\* y or of the scratch buffers, and every unit has written only elements of
\* its own system (row in the naive solver, team in the fused solver).
C2_DisjointWrites ==
  (InNaive \/ InOpt) =>
    /\ \A e1 \in wlog : \A e2 \in wlog :
         (e1[1] # e2[1] /\ SameDispatch(e1[1], e2[1])) => e1[2] # e2[2]
    /\ \A e \in wlog : e[2][2] = OwnerOf(e[1])

\* row k of the tridiagonal product of system i with the result res
Product(res, i, k) ==
  RAdd(RAdd(IF k > 0 THEN RMul(a[i][k], res[i][k - 1]) ELSE Zero,
            RMul(b[i][k], res[i][k])),
       IF k < nk - 1 THEN RMul(c[i][k], res[i][k + 1]) ELSE Zero)

\* C6: for every system in which no pivot was zero, the result of a finished
\* solve, multiplied back into the tridiagonal matrix, gives the original
\* right-hand side at every level (boundary terms dropped).
C6_Reconstruction ==
  /\ (InNaive /\ NaiveFinished) =>
       \A i \in Rows :
         (\A k \in Levels : NaivePivot(i, k) # Zero) =>
            \A k \in Levels : Product(y_naive, i, k) = y[i][k]
  /\ (InOpt /\ FusedFinished) =>
       \A i \in Rows :
         (\A k \in Levels : FusedPivot(i, k) # Zero) =>
            \A k \in Levels : Product(y_optimized, i, k) = y[i][k]

ClosedForm(i) ==
  IF b[i][0] # Zero THEN RMul(y[i][0], RInv(b[i][0])) ELSE Zero

\* C7: with nk = 1 both solvers return y[i][0] / b[i][0] where b[i][0] # 0
\* and 0 where b[i][0] = 0, whatever a[i][0] and c[i][0] are, and store to no
\* index outside level 0 (scratch slots 0 and 1 in the fused solver).
C7_SingleLevel ==
  nk = 1 =>
    /\ (InNaive /\ NaiveFinished) =>
         \A i \in Rows : y_naive[i][0] = ClosedForm(i)
    /\ (InOpt /\ FusedFinished) =>
         \A i \in Rows : y_optimized[i][0] = ClosedForm(i)
    /\ (InNaive \/ InOpt) =>
         \A e \in wlog :
           e[2][3] \in (IF e[2][1] = "scratch" THEN 0 .. ScratchSize - 1
                        ELSE Levels)

\* C4: of two solves whose inputs differ only in the diagonal of system i1,
\* the second leaves in every other system the result the first left there,
\* in the naive and in the fused solver.
C4_RowIsolation ==
  changed # {} =>
    /\ (InNaive /\ NaiveFinished) =>
         \A i2 \in Rows \ changed : y_naive[i2] = first_naive[i2]
    /\ (InOpt /\ FusedFinished) =>
         \A i2 \in Rows \ changed : y_optimized[i2] = first_opt[i2]

\* C9: every completed solve of main leaves the result its first completed
\* solve of the same solver left: the result depends neither on the
\* scheduling of the units of a dispatch nor on the repetition.
C9_Deterministic ==
  /\ (InNaive /\ NaiveFinished /\ first_naive # NoView) =>
       y_naive = first_naive
  /\ (InOpt /\ FusedFinished /\ first_opt # NoView) =>
       y_optimized = first_opt

\* a solver has just been entered and has not dispatched anything yet
NaiveEntered == InNaive /\ launched = 0
OptEntered   == InOpt /\ dispatched = 0

\* C10 as stated: in "both" mode main has invoked the naive and the fused
\* solver the same number of times when it reaches its output.
C10_SameCallCount ==
  (pc = "out" /\ impl = "both") => naive_calls = opt_calls

\* C10 as amended: in "both" mode main invokes the fused solver
\* WarmupIters + reps times and the naive solver WarmupIters + 2 * reps times
\* (the naive loop is timed a second time for the speedup), and every
\* invocation starts on a fresh copy of the generated y.
C10_CallCounts ==
  /\ (pc = "out" /\ impl = "both") =>
       /\ opt_calls = WarmupIters + reps
       /\ naive_calls = WarmupIters + 2 * reps
  /\ NaiveEntered => y_naive = y
  /\ OptEntered => y_optimized = y

\* main at its output in "both" mode after at least one repetition per timed
\* loop, the naive solver having been invoked more often than the fused one
C10_Witness ==
  /\ pc = "out" /\ impl = "both" /\ reps >= 1
  /\ naive_calls > opt_calls

\* the buffers a solve may store to: its y argument and its scratch
SolveBuffers == {"y", "c_prime", "y_prime", "scratch"}

\* C11: no step of a naive or fused solve changes a, b or c (nor the
\* caller's y, of which the solvers get a copy), and every store a unit of
\* work makes addresses the y argument or a scratch buffer of the solve.
C11_Frame ==
  [][/\ a' = a /\ b' = b /\ c' = c /\ y' = y
     /\ \A e \in wlog' : e[2][1] \in SolveBuffers]_vars

\* both solvers have returned from a solve of two systems of two levels and
\* a, c still hold the caller's values
C11_Witness ==
  /\ BothReturned /\ ni = 2 /\ nk = 2
  /\ naive_calls = 1 /\ opt_calls = 1
  /\ a = ArgA /\ c = ArgC

\* C12: one naive solve issues exactly 2*nk dispatches: the forward passes of
\* levels 0 .. nk-1 in ascending order, then the backward passes of levels
\* nk-1 .. 0 in descending order; each forward pass stores c_prime and
\* y_prime of its level only, each backward pass y of its level only.
C12_DispatchCount ==
  InNaive =>
    /\ Len(NaiveDispatches) = 2 * nk
    /\ launched <= 2 * nk
    /\ NaiveFinished => launched = 2 * nk
    /\ \A k \in Levels :
         /\ NaiveDispatches[FwdPass(k) + 1] =
              <<IF k = 0 THEN "forward_sweep_first" ELSE "forward_sweep", k>>
         /\ NaiveDispatches[BwdPass(k) + 1] =
              <<IF k = nk - 1 THEN "backward_sweep_last"
                ELSE "backward_sweep", k>>
    /\ \A e \in wlog :
         IF e[1][1] < nk
         THEN e[2][1] \in {"c_prime", "y_prime"} /\ e[2][3] = e[1][1]
         ELSE e[2][1] = "y" /\ e[2][3] = 2 * nk - 1 - e[1][1]

\* a naive solve of two levels whose four dispatches have all completed
C12_Witness ==
  /\ InNaive /\ nk = 2 /\ launched = 4
  /\ \A p \in 0 .. 3 : PassComplete(p)

\* the locations statement s of the team lambda stores to, for team i
StatementTargets(s, i) ==
  IF s < nk
  THEN {<<"scratch", i, c_prime_at(s)>>, <<"scratch", i, y_prime_at(s)>>}
  ELSE {<<"y", i, 2 * nk - 1 - s>>}

\* C13: a fused solve consists of one dispatch of ni teams; every member of
\* team i runs the forward statements of levels 0 .. nk-1 in ascending order
\* and then the backward statements of levels nk-1 .. 0 in descending
\* order, storing to system i only; and the solver returns only when every
\* member of every team has run all its statements.
C13_SingleDispatch ==
  [][/\ (InOpt /\ dispatched = 1) =>
          (DOMAIN mpc = Rows /\ \A i \in Rows : DOMAIN mpc[i] = Members)
     /\ (InOpt /\ opt_calls' = opt_calls /\ dispatched = 1) => dispatched' = 1
     /\ (InOpt /\ ~InOpt') =>
          (dispatched = 1 /\
           \A i \in Rows : \A m \in Members : mpc[i][m] = 2 * nk)
     /\ (InOpt /\ InOpt' /\ dispatched = 1 /\ dispatched' = 1) =>
          \A i \in Rows : \A m \in Members :
            \/ mpc'[i][m] = mpc[i][m]
            \/ /\ mpc'[i][m] = mpc[i][m] + 1
               /\ wlog' \ wlog =
                    {<<(<<i, m>>), t>> : t \in StatementTargets(mpc[i][m], i)}
    ]_vars

ScratchNames == {"c_prime", "y_prime", "scratch"}

\* location l of system i has been stored to, in the current solve, by a
\* unit of work of system i
WrittenThisSolve(l, i) ==
  l[2] = i /\ \E e \in wlog : e[2] = l /\ OwnerOf(e[1]) = i

\* C14: whenever a unit of work of either solver runs, every scratch entry
\* (c_prime / y_prime, or slot of the team scratch) it loads belongs to its
\* own system and was stored earlier in the same solve by a unit of that
\* system; this holds in a repeated solve as in the first.
C14_NoStaleScratch ==
  [][/\ (InNaive /\ InNaive') =>
          \A p \in Passes : \A i \in Rows :
            (i \in done'[p] /\ i \notin done[p]) =>
               \A l \in Loads(NaiveLambda(p, i)) :
                 l[1] \in ScratchNames => WrittenThisSolve(l, i)
     /\ (InOpt /\ InOpt' /\ dispatched = 1 /\ dispatched' = 1) =>
          \A i \in Rows : \A m \in Members :
            mpc'[i][m] # mpc[i][m] =>
               \A l \in Loads(TeamLambda(mpc[i][m], i)) :
                 l[1] \in ScratchNames => WrittenThisSolve(l, i)
    ]_vars

\* the second fused solve of a two-level batch, two members per team, has
\* completed (after two naive solves)
C14_Witness ==
  /\ InOpt /\ FusedFinished /\ nk = 2 /\ team_size = 2
  /\ opt_calls = 2 /\ naive_calls = 2

\* C15: when a solve has finished, every system whose pivot was zero at every
\* level holds 0 in every result entry, in the naive and in the fused
\* solver; no reciprocal of zero was taken, every result is finite and no
\* solve ends in a fault.
C15_AllZeroPivots ==
  /\ ~divzero
  /\ pc # "abort"
  /\ (InNaive /\ NaiveFinished) =>
       /\ AllFinite(y_naive)
       /\ \A i \in Rows :
            (\A k \in Levels : NaivePivot(i, k) = Zero) =>
               \A k \in Levels : y_naive[i][k] = Zero
  /\ (InOpt /\ FusedFinished) =>
       /\ AllFinite(y_optimized)
       /\ \A i \in Rows :
            (\A k \in Levels : FusedPivot(i, k) = Zero) =>
               \A k \in Levels : y_optimized[i][k] = Zero

\* C16: on a machine that keeps executing, every naive solve that has been
\* entered completes all its passes, every fused solve that has been entered
\* completes its dispatch, and main reaches its output.
C16_Termination ==
  /\ (InNaive /\ ~NaiveFinished) ~> (InNaive /\ NaiveFinished)
  /\ (InOpt /\ ~FusedFinished) ~> (InOpt /\ FusedFinished)
  /\ <>(pc = "out")

\* the entries of the four generated views at (i, k)
Entry(i, k) == <<a[i][k], b[i][k], c[i][k], y[i][k]>>

\* C17: a unit of init_matrices stores to its own (i, k) entry of a, b, c and
\* y and to no other, and no unit runs twice; once main is past the
\* initialization every unit has run, a[i][0] = 0 and a[i][k] = -1/2 for
\* k > 0, c[i][nk-1] = 0 and c[i][k] = -1/2 for k < nk-1, for every system.
C17_Generator ==
  [][/\ (pc = "init" /\ pc' = "init") =>
          \E u \in (Rows \X Levels) \ initdone :
            /\ initdone' = initdone \cup {u}
            /\ \A i \in Rows : \A k \in Levels :
                 <<i, k>> # u => Entry(i, k)' = Entry(i, k)
     /\ pc' # "init" =>
          /\ initdone' = Rows \X Levels
          /\ \A i \in Rows : \A k \in Levels :
               /\ a'[i][k] = (IF k = 0 THEN Zero ELSE <<-1, 2>>)
               /\ c'[i][k] = (IF k = nk - 1 THEN Zero ELSE <<-1, 2>>)
    ]_vars

\* two systems of two levels after the fence: both couplings are present
C17_Witness ==
  /\ pc = "w_head" /\ ni = 2 /\ nk = 2
  /\ a[1][1] = <<-1, 2>> /\ c[0][0] = <<-1, 2>>
  /\ a[0][0] = Zero /\ c[1][1] = Zero

\* some member of team i has run the backward statement of level k
FusedBackwardRan(i, k) == \E m \in Members : mpc[i][m] > BwdPass(k)

\* C18: in both solvers, where the pivot of system i at level k is zero the
\* result entry (i, k), once stored, is 0; and the forward step of level
\* k+1, once it has run, has used pivot b[i][k+1] and, where that is not
\* zero, has left c_prime = c[i][k+1] / b[i][k+1] and
\* y_prime = y[i][k+1] / b[i][k+1], y being the right-hand side the solve
\* was called with.
C18_Decoupling ==
  /\ InNaive =>
       \A i \in Rows : \A k \in Levels :
         (i \in done[FwdPass(k)] /\ NaivePivot(i, k) = Zero) =>
            /\ i \in done[BwdPass(k)] => y_naive[i][k] = Zero
            /\ (k + 1 < nk /\ i \in done[FwdPass(k + 1)]) =>
                 /\ NaivePivot(i, k + 1) = b[i][k + 1]
                 /\ b[i][k + 1] # Zero =>
                      /\ c_prime[i][k + 1] =
                           RMul(c[i][k + 1], RInv(b[i][k + 1]))
                      /\ y_prime[i][k + 1] =
                           RMul(y[i][k + 1], RInv(b[i][k + 1]))
  /\ (InOpt /\ dispatched = 1) =>
       \A i \in Rows : \A k \in Levels :
         (FusedForwardRan(i, k) /\ FusedPivot(i, k) = Zero) =>
            /\ FusedBackwardRan(i, k) => y_optimized[i][k] = Zero
            /\ (k + 1 < nk /\ FusedForwardRan(i, k + 1)) =>
                 /\ FusedPivot(i, k + 1) = b[i][k + 1]
                 /\ b[i][k + 1] # Zero =>
                      /\ scratch[i][c_prime_at(k + 1)] =
                           RMul(c[i][k + 1], RInv(b[i][k + 1]))
                      /\ scratch[i][y_prime_at(k + 1)] =
                           RMul(y[i][k + 1], RInv(b[i][k + 1]))

\* entry l of the working buffer buf has not been stored to in the current
\* solve and holds the right-hand side the solve was called with
Untouched(buf, l) ==
  ywrites[l[2]][l[3]] = 0 /\ buf[l[2]][l[3]] = y[l[2]][l[3]]

\* C19: whenever a forward step of either solver (a unit of a forward pass;
\* a forward statement run by any member of a team) loads y(i, k), no
\* backward step of the same solve has stored to y(i, k) yet, and the value
\* loaded is the original right-hand side.
C19_InPlaceSafe ==
  [][/\ (InNaive /\ InNaive') =>
          \A p \in Passes : \A i \in Rows :
            (p < nk /\ i \in done'[p] /\ i \notin done[p]) =>
               \A l \in Loads(NaiveLambda(p, i)) :
                 l[1] = "y" => Untouched(y_naive, l)
     /\ (InOpt /\ InOpt' /\ dispatched = 1 /\ dispatched' = 1) =>
          \A i \in Rows : \A m \in Members :
            (mpc[i][m] < nk /\ mpc'[i][m] # mpc[i][m]) =>
               \A l \in Loads(TeamLambda(mpc[i][m], i)) :
                 l[1] = "y" => Untouched(y_optimized, l)
    ]_vars

\* the team lambda executed from beginning to end by a single member, on
\* the right-hand side y: pivot, the values stored to c_prime[k] and
\* y_prime[k], the value a later load of c_prime[k] returns (the store to
\* y_prime[k] follows the one to c_prime[k]), and the final y(i,k)
RECURSIVE SinglePivot(_, _), SingleCPrime(_, _), SingleYPrime(_, _)
RECURSIVE SingleCLoad(_, _), SingleResult(_, _)
SinglePivot(i, k) ==
  IF k = 0 THEN b[i][0]
  ELSE RSub(b[i][k], RMul(a[i][k], SingleCLoad(i, k - 1)))
SingleCPrime(i, k) ==
  IF SinglePivot(i, k) # Zero
  THEN RMul(c[i][k], RInv(SinglePivot(i, k)))
  ELSE Zero
SingleCLoad(i, k) ==
  IF c_prime_at(k) = y_prime_at(k) THEN SingleYPrime(i, k)
  ELSE SingleCPrime(i, k)
SingleYPrime(i, k) ==
  IF SinglePivot(i, k) # Zero
  THEN RMul(IF k = 0 THEN y[i][0]
            ELSE RSub(y[i][k], RMul(a[i][k], SingleYPrime(i, k - 1))),
            RInv(SinglePivot(i, k)))
  ELSE Zero
SingleResult(i, k) ==
  IF k = nk - 1 THEN SingleYPrime(i, k)
  ELSE RSub(SingleYPrime(i, k),
            RMul(SingleCLoad(i, k), SingleResult(i, k + 1)))

\* C20: when a fused solve has finished, every result entry holds the value
\* a single member executing the team lambda alone would have left there,
\* whatever the team size and the interleaving of the members were.
C20_TeamSizeIndependent ==
  (InOpt /\ FusedFinished) =>
    \A i \in Rows : \A k \in Levels : y_optimized[i][k] = SingleResult(i, k)

\* C21: every solver invocation main makes, warm-up or timed, starts in a
\* working buffer equal to the generator's y, and y is never written once the
\* initialisation is over.
C21_FreshStart ==
  [][ /\ (pc # "init" => y' = y)
      /\ (naive_calls' = naive_calls + 1 => y_naive' = y')
      /\ (opt_calls' = opt_calls + 1 => y_optimized' = y') ]_vars

\* the last naive solve of a "both" run is about to start: both solvers have
\* produced results that differ from y, and the buffer holds y again
C21_Witness ==
  /\ pc = "s_solve" /\ launched = 0
  /\ first_naive # NoView /\ first_naive # y
  /\ first_opt # NoView /\ first_opt # y
  /\ opt_calls = WarmupIters + reps
  /\ y_naive = y

\* C22: while a fused dispatch runs, c_prime and y_prime are two disjoint
\* regions of nk doubles inside the team's 2*nk scratch doubles: no access
\* c_prime[k] or y_prime[k], 0 <= k < nk, leaves the scratch or lands in the
\* other region, and none faults.
C22_ScratchRegions ==
  /\ pc # "abort"
  /\ (InOpt /\ dispatched = 1) =>
       /\ ~y_prime_null
       /\ \A k \in Levels :
            /\ c_prime_at(k) \in 0 .. ScratchSize - 1
            /\ y_prime_at(k) \in 0 .. ScratchSize - 1
       /\ \A k1 \in Levels : \A k2 \in Levels :
            c_prime_at(k1) # y_prime_at(k2)

====
